---- MODULE Spec2Model ----
(***************************************************************************)
(* Model of DownloadManager (src/Downloader/downloader_core.py): the       *)
(* single-flight download orchestrator, its two adapters and the events    *)
(* it delivers to the registered handlers.                                 *)
(*                                                                         *)
(* Threads: the callers of download_content (Callers) and one worker       *)
(* thread per accepted submission.  Every submission gets a record in      *)
(* `reqs' that also keeps the worker's position and the number of events   *)
(* delivered on its behalf.  A step of the model is one piece of code      *)
(* between two points where CPython may switch threads and the other       *)
(* thread could observe or change is_downloading.                          *)
(***************************************************************************)
EXTENDS Naturals, Sequences, FiniteSets, TLC

\* ---------------------------------------------------------------- bounds
MaxCalls == 2      \* download_content calls in one behaviour
MaxChunks == 2     \* chunks of a response body / progress hooks of one engine run
MaxLen == 2        \* bytes of one chunk / bytes reported by one hook record

\* ---------------------------------------------------------------- inputs
Callers == {"t1", "t2"}
Urls == {"", "http://h/x.jpg"}

\* the URLs of the specification of one worker (SpecWorker): no path, a path
\* ending in '/', a last segment without a dot, with an extension, with a
\* dot in a directory only, with a leading or a trailing dot only, and a
\* query after the path
StreamUrls ==
    {"http://h", "http://h/", "http://h/a/", "http://h/pic", "http://h/a.b/pic",
     "http://h/pic.png", "http://h/.pic", "http://h/pic.", "http://h/pic?v=1.2"}

Kinds == {"video", "audio", "image", "gif"}
Dirs == {"out", "missing"}
ExistingDirs == {"out"}

\* the submissions the callers draw from: every kind with a good URL and an
\* existing directory, plus the empty URL and the missing directory
Submissions ==
    { <<u, k, d>> \in Urls \X Kinds \X Dirs :
          \/ (u # "" /\ d = "out")
          \/ (u = "" /\ k = "image" /\ d = "out")
          \/ (u # "" /\ k = "image" /\ d = "missing") }

\* DownloadManager.__init__ as called by DownloaderApp.__init__: all three
\* handlers are registered
progress_callback == TRUE
completion_callback == TRUE
error_callback == TRUE

\* what a call of a registered handler can do
HandlerOutcomes == {"returns", "raises"}

VARIABLES
    is_downloading,   \* DownloadManager.is_downloading
    cpc,              \* cpc[t]: position of caller t inside download_content
    cur,              \* cur[t]: the submission caller t is making (0: none)
    reqs,             \* one record per submission, in call order
    download_button   \* DownloaderApp.download_button's state (main.py)

vars == <<is_downloading, cpc, cur, reqs, download_button>>

ncalls == Len(reqs)
Ids == 1..ncalls

\* ------------------------------------------------------------- predicates
Accepted(r) == reqs[r].result = "accepted"
Finished(r) == reqs[r].wpc \in {"done", "crashed"}
ExtractionPcs == {"l58", "l65", "l68", "l70"}
DirectPcs == {"l77", "l91", "l92", "l107", "l110", "l113", "l115"}
InAdapter(r) == reqs[r].wpc \in ExtractionPcs \cup DirectPcs
Running(r) == Accepted(r) /\ ~Finished(r)
Outcomes(r) == reqs[r].ncompletion + reqs[r].nerror
Progress(r) == reqs[r].loc.nprogress
Events(r) == Progress(r) + Outcomes(r)

\* the record of a submission: its arguments, how download_content ended
\* (result), the worker thread's position (wpc), what the running adapter
\* holds (loc), the outcome events delivered on behalf of the submission
\* and, of these, the ones whose GUI handler (_on_download_complete_gui,
\* _on_download_error_gui of main.py) the interaction thread has run (ngui).
\* loc.engine: the result of the engine run, until the callback that follows
\*   it is made (the code never looks at it);
\* loc.exc: the exception raised in the try block, until its except clause
\*   has reported it;
\* loc.pending: an exception is propagating out of the adapter;
\* loc.nprogress: the progress events delivered by the adapter's download
\*   loop, counted while the loop runs;
\* loc.ydl_opts: the options _download_video_audio gives the engine;
\* loc.file_path: the destination of _download_image, until the first
\*   outcome event;
\* loc.content_length, loc.total_size, loc.downloaded_size: the size header
\*   of the response and the two counters of _download_image;
\* loc.received, loc.nonempty, loc.written: the bytes and the number of the
\*   non-empty chunks the iterator has yielded, and the bytes written to
\*   the file;
\* loc.nget: the calls of requests.get the adapter has made;
\* loc.response: how the request of line 77 ended, until the first outcome
\*   event;
\* loc.f: the file object of the with block of line 91 ("open" inside the
\*   block);
\* loc.ev: the last progress event delivered to progress_callback;
\* loc.msg: the argument of the last completion_callback or error_callback
\*   call of the adapter.
\* The bookkeeping of the download loop (the counters and loc.ev) is kept
\* while the loop runs.  What the adapter holds is gone when the thread
\* ends.
NoPath == [dir |-> "", name |-> <<>>]
NoOpts == [format |-> "", postprocessors |-> {}, extract_audio |-> FALSE]
NA == [known |-> FALSE, tenths |-> 0]
NoEvent ==
    [keys |-> {}, status |-> "none", total_bytes |-> 0, downloaded_bytes |-> 0,
     percent |-> NA]
NoMsg == [kind |-> "none", prefix |-> "", url |-> "", detail |-> "", path |-> NoPath]

NoLocals ==
    [engine |-> "none", exc |-> "none", pending |-> FALSE, nprogress |-> 0,
     ydl_opts |-> NoOpts, file_path |-> NoPath, content_length |-> <<>>,
     total_size |-> 0, downloaded_size |-> 0, received |-> 0, nonempty |-> 0,
     written |-> 0, nget |-> 0, response |-> "none", f |-> "none",
     ev |-> NoEvent, msg |-> NoMsg]

\* the download loop is over (the engine has returned or raised, the chunk
\* iterator is exhausted or an exception leaves the loop): its bookkeeping
\* is dropped
after_loop(l) ==
    [l EXCEPT !.nprogress = 0, !.content_length = <<>>, !.total_size = 0,
              !.downloaded_size = 0, !.received = 0, !.nonempty = 0,
              !.written = 0, !.f = "none", !.ev = NoEvent]

\* an outcome callback of the adapter is made
after_outcome(l) ==
    [after_loop(l) EXCEPT !.engine = "none", !.file_path = NoPath,
                          !.response = "none"]

NewReq(u, k, d) ==
    [url |-> u, download_type |-> k, output_dir |-> d,
     result |-> "pending", wpc |-> "none", adapter |-> "none",
     loc |-> NoLocals, ncompletion |-> 0, nerror |-> 0, ngui |-> 0]

\* the thread ends: normally, or with the exception that is propagating
thread_end(rec) == IF rec.loc.pending THEN "crashed" ELSE "done"

\* os.path.isdir(output_dir)
isdir(d) == d \in ExistingDirs

\* download_content without the test of the directory
download_content_checks_nodir(busy, dir_ok) ==
    IF busy THEN "l128" ELSE "l136"

\* download_content, lines 126-136: where the call goes after the two checks
download_content_checks(busy, dir_ok) ==
    IF busy THEN "l128"
    ELSE IF ~dir_ok THEN "l133"
    ELSE "l136"

\* _run_download_task with the image adapter as the default branch
run_download_task_branch_default(k) ==
    IF k \in {"video", "audio"} THEN "l58" ELSE "l77"

\* _run_download_task, lines 143-148: the branch taken for a download type
run_download_task_branch(k) ==
    IF k \in {"video", "audio"} THEN "l58"
    ELSE IF k = "image" THEN "l77"
    ELSE "l149"

AdapterOf(pc) ==
    IF pc = "l58" THEN "extraction"
    ELSE IF pc = "l77" THEN "direct"
    ELSE "none"

\* _download_video_audio giving the engine the video options for every type
ydl_opts_video_only(download_type) ==
    [format |-> "bestvideo[ext=mp4]+bestaudio[ext=m4a]/best[ext=mp4]/best",
     postprocessors |-> {}, extract_audio |-> FALSE]

\* lines 37-55: the options _download_video_audio gives the engine
ydl_opts(download_type) ==
    IF download_type = "audio"
    THEN [format |-> "bestaudio/best",
          postprocessors |-> {"FFmpegExtractAudio"}, extract_audio |-> TRUE]
    ELSE [format |-> "bestvideo[ext=mp4]+bestaudio[ext=m4a]/best[ext=mp4]/best",
          postprocessors |-> {}, extract_audio |-> FALSE]

\* ------------------------------------------------------------------ Init
Init ==
    /\ is_downloading = FALSE
    /\ cpc = [t \in Callers |-> "idle"]
    /\ cur = [t \in Callers |-> 0]
    /\ reqs = <<>>
    /\ download_button = "normal"

\* ------------------------------------------- download_content (the caller)
\* lines 126 and 131: read the flag, test the directory
download_content_enter(t) ==
    /\ cpc[t] = "idle"
    /\ ncalls < MaxCalls
    /\ \E s \in Submissions :
          /\ reqs' = Append(reqs, NewReq(s[1], s[2], s[3]))
          /\ cpc' = [cpc EXCEPT ![t] =
                        download_content_checks(is_downloading, isdir(s[3]))]
    /\ cur' = [cur EXCEPT ![t] = ncalls + 1]
    /\ UNCHANGED <<is_downloading, download_button>>

\* download_content returning silently when busy
download_content_busy_silent(t) ==
    /\ cpc[t] = "l128"
    /\ reqs' = [reqs EXCEPT ![cur[t]].result = "rejected_busy"]
    /\ cpc' = [cpc EXCEPT ![t] = "idle"]
    /\ cur' = [cur EXCEPT ![t] = 0]
    /\ UNCHANGED <<is_downloading, download_button>>

\* download_content clearing the flag when it rejects a call as busy
download_content_busy_clears(t) ==
    /\ cpc[t] = "l128"
    /\ reqs' = [reqs EXCEPT ![cur[t]].result = "rejected_busy",
                            ![cur[t]].nerror = IF error_callback THEN @ + 1 ELSE @]
    /\ cpc' = [cpc EXCEPT ![t] = "idle"]
    /\ cur' = [cur EXCEPT ![t] = 0]
    /\ is_downloading' = FALSE
    /\ UNCHANGED download_button

\* lines 127-129: busy, error_callback("A download is already in progress")
\* (an exception of the handler propagates to the caller: the call is over
\* either way)
download_content_busy(t) ==
    /\ cpc[t] = "l128"
    /\ reqs' = [reqs EXCEPT ![cur[t]].result = "rejected_busy",
                            ![cur[t]].nerror = IF error_callback THEN @ + 1 ELSE @]
    /\ cpc' = [cpc EXCEPT ![t] = "idle"]
    /\ cur' = [cur EXCEPT ![t] = 0]
    /\ UNCHANGED <<is_downloading, download_button>>

\* lines 132-134: error_callback("Output directory does not exist")
download_content_nodir(t) ==
    /\ cpc[t] = "l133"
    /\ reqs' = [reqs EXCEPT ![cur[t]].result = "rejected_dir",
                            ![cur[t]].nerror = IF error_callback THEN @ + 1 ELSE @]
    /\ cpc' = [cpc EXCEPT ![t] = "idle"]
    /\ cur' = [cur EXCEPT ![t] = 0]
    /\ UNCHANGED <<is_downloading, download_button>>

\* download_content going on to start the thread without line 136
download_content_skip_set(t) ==
    /\ cpc[t] = "l136"
    /\ cpc' = [cpc EXCEPT ![t] = "l139"]
    /\ UNCHANGED <<is_downloading, cur, reqs, download_button>>

\* line 136
download_content_set(t) ==
    /\ cpc[t] = "l136"
    /\ is_downloading' = TRUE
    /\ cpc' = [cpc EXCEPT ![t] = "l139"]
    /\ UNCHANGED <<cur, reqs, download_button>>

\* lines 137-139: thread.start() starts the worker, or raises RuntimeError
\* ("can't start new thread"), which propagates to the caller
download_content_start(t) ==
    /\ cpc[t] = "l139"
    /\ \E started \in BOOLEAN :
          reqs' = [reqs EXCEPT
                      ![cur[t]].result = IF started THEN "accepted" ELSE "start_failed",
                      ![cur[t]].wpc = IF started THEN "l143" ELSE "none"]
    /\ cpc' = [cpc EXCEPT ![t] = "idle"]
    /\ cur' = [cur EXCEPT ![t] = 0]
    /\ UNCHANGED <<is_downloading, download_button>>

\* ------------------------------------------- _run_download_task (worker)
\* the worker thread of submission w exists and is at one of pcs
At(w, pcs) == w \in Ids /\ reqs[w].wpc \in pcs

run_download_task(w) ==
    /\ At(w, {"l143"})
    /\ LET pc == run_download_task_branch(reqs[w].download_type)
       IN reqs' = [reqs EXCEPT
                      ![w].wpc = pc,
                      ![w].adapter = AdapterOf(pc),
                      ![w].loc.ydl_opts = IF pc = "l58"
                                          THEN ydl_opts(reqs[w].download_type)
                                          ELSE @]
    /\ UNCHANGED <<is_downloading, cpc, cur, download_button>>

\* lines 148-149: error_callback("Invalid download type"); when the handler
\* raises, line 150 is not reached and the thread ends with the exception
run_download_task_invalid(w) ==
    /\ At(w, {"l149"})
    /\ \E h \in HandlerOutcomes :
          reqs' = [reqs EXCEPT
                      ![w].nerror = IF error_callback THEN @ + 1 ELSE @,
                      ![w].wpc = IF error_callback /\ h = "raises"
                                 THEN "crashed" ELSE "l150"]
    /\ UNCHANGED <<is_downloading, cpc, cur, download_button>>

\* line 150
run_download_task_clear(w) ==
    /\ At(w, {"l150"})
    /\ is_downloading' = FALSE
    /\ reqs' = [reqs EXCEPT ![w].wpc = "done"]
    /\ UNCHANGED <<cpc, cur, download_button>>

\* ------------------------------------- _download_video_audio (extraction)
\* what ydl.download([url]) can do under 'ignoreerrors': True: succeed,
\* report the failure and return, or raise
EngineResults == {"ok", "failed_silently", "raised"}

\* lines 60 and 66: where the engine's result leads
after_engine(res) == IF res = "raised" THEN "l68" ELSE "l65"

\* line 65: f"Download complete for {url} (check {output_path})"
video_audio_complete_message(u, d) ==
    [kind |-> "completion", prefix |-> "Download complete for", url |-> u,
     detail |-> "check", path |-> [dir |-> d, name |-> <<>>]]

\* line 68: f"Error downloading {url}: {e}"; str(e) names the exception
video_audio_error_message(u, e) ==
    [kind |-> "error", prefix |-> "Error downloading", url |-> u,
     detail |-> e, path |-> NoPath]

\* the fields of the record the engine passes to a progress hook, as the
\* handler written for it reads them (main.py, _update_progress_gui)
NativeKeys ==
    {"status", "total_bytes", "total_bytes_estimate", "downloaded_bytes",
     "_percent_str", "_total_bytes_str", "_speed_str", "_eta_str",
     "_downloaded_bytes_str"}

hook_record(status, n) ==
    [keys |-> IF status = "error" THEN {"status"} ELSE NativeKeys,
     status |-> status, total_bytes |-> 0, downloaded_bytes |-> n,
     percent |-> NA]

\* the records the engine may pass to the hook while it works on u: the
\* byte count is the engine's, per file and per attempt (the video format
\* of line 43 asks for two files, line 40 for retries)
HookRecords(u) ==
    IF u \in Urls
    THEN {hook_record("downloading", 0)}
    ELSE {hook_record(s, n) : s \in {"downloading", "finished"}, n \in 0..MaxLen}
             \cup {hook_record("error", 0)}

\* lines 30-31: the record _yt_dlp_hook passes to progress_callback
yt_dlp_hook_forward(d) == d

\* lines 26-31 and 39: the engine calls _yt_dlp_hook, which forwards to
\* progress_callback; an exception of the handler is raised inside
\* ydl.download, which swallows it (ignoreerrors) or lets it through
yt_dlp_hook(w) ==
    /\ At(w, {"l58"})
    /\ reqs[w].loc.nprogress < MaxChunks
    /\ \E h \in HandlerOutcomes, res \in {"failed_silently", "raised"},
          d \in HookRecords(reqs[w].url) :
          LET l == [reqs[w].loc EXCEPT
                       !.nprogress = IF progress_callback THEN @ + 1 ELSE @,
                       !.ev = IF progress_callback
                              THEN yt_dlp_hook_forward(d) ELSE @]
          IN reqs' = [reqs EXCEPT
                         ![w].loc = IF progress_callback /\ h = "raises"
                                    THEN [after_loop(l) EXCEPT
                                             !.engine = res,
                                             !.exc = IF res = "raised"
                                                     THEN "handler" ELSE @]
                                    ELSE l,
                         ![w].wpc = IF progress_callback /\ h = "raises"
                                    THEN after_engine(res) ELSE @]
    /\ UNCHANGED <<is_downloading, cpc, cur, download_button>>

\* lines 58-59: ydl.download returns or raises
ydl_download(w) ==
    /\ At(w, {"l58"})
    /\ \E res \in EngineResults :
          reqs' = [reqs EXCEPT
                      ![w].loc = [after_loop(@) EXCEPT
                                     !.engine = res,
                                     !.exc = IF res = "raised" THEN "engine" ELSE @],
                      ![w].wpc = after_engine(res)]
    /\ UNCHANGED <<is_downloading, cpc, cur, download_button>>

\* lines 60-65: completion_callback(...) inside the try block: an exception
\* of the handler is caught by `except Exception' at line 66
video_audio_complete(w) ==
    /\ At(w, {"l65"})
    /\ \E h \in HandlerOutcomes :
          reqs' = [reqs EXCEPT
                      ![w].ncompletion = IF completion_callback THEN @ + 1 ELSE @,
                      ![w].loc = [after_outcome(@) EXCEPT
                          !.msg = IF completion_callback
                                  THEN video_audio_complete_message(
                                           reqs[w].url, reqs[w].output_dir)
                                  ELSE @,
                          !.exc = IF completion_callback /\ h = "raises"
                                  THEN "handler" ELSE @],
                      ![w].wpc = IF completion_callback /\ h = "raises"
                                 THEN "l68" ELSE "l70"]
    /\ UNCHANGED <<is_downloading, cpc, cur, download_button>>

\* lines 66-68: error_callback(...); an exception of the handler leaves the
\* except block and is pending while the finally block runs
video_audio_error(w) ==
    /\ At(w, {"l68"})
    /\ \E h \in HandlerOutcomes :
          reqs' = [reqs EXCEPT
                      ![w].nerror = IF error_callback THEN @ + 1 ELSE @,
                      ![w].loc = [after_outcome(@) EXCEPT
                          !.msg = IF error_callback
                                  THEN video_audio_error_message(
                                           reqs[w].url, reqs[w].loc.exc)
                                  ELSE @,
                          !.exc = "none",
                          !.pending = error_callback /\ h = "raises"],
                      ![w].wpc = "l70"]
    /\ UNCHANGED <<is_downloading, cpc, cur, download_button>>

\* lines 69-70: finally; then the thread ends, with the pending exception
\* if there is one
video_audio_finally(w) ==
    /\ At(w, {"l70"})
    /\ is_downloading' = FALSE
    /\ reqs' = [reqs EXCEPT ![w].wpc = thread_end(reqs[w]), ![w].loc = NoLocals]
    /\ UNCHANGED <<cpc, cur, download_button>>

\* ------------------------------------------ _download_image (direct stream)
\* lines 77-78: requests.get and raise_for_status: a response with a success
\* status, a transport failure or a non-success status (both are
\* RequestException); an empty URL is refused before anything is sent
GetResults(u) == IF u = "" THEN {"network"} ELSE {"ok", "network", "http"}

\* lines 108-113: the except clause that catches an exception kind
except_clause(e) == IF e \in {"network", "http"} THEN "l110" ELSE "l113"

\* _download_image without raise_for_status
after_get_any_status(res) == IF res = "network" THEN "l110" ELSE "l91"

\* lines 77-78: requests.get raises on a transport failure and
\* raise_for_status on a non-success status; otherwise the adapter goes on
\* to derive the file name and to open the file (line 91)
after_get(res) == IF res = "ok" THEN "l91" ELSE except_clause(res)

\* line 81: urlparse(url).path, as a sequence of characters
urlparse_path(u) ==
    CASE u = "http://h/x.jpg" -> <<"/", "x", ".", "j", "p", "g">>
      [] u = "http://h/" -> <<"/">>
      [] u = "http://h/a/" -> <<"/", "a", "/">>
      [] u = "http://h/pic" -> <<"/", "p", "i", "c">>
      [] u = "http://h/a.b/pic" -> <<"/", "a", ".", "b", "/", "p", "i", "c">>
      [] u = "http://h/pic.png" -> <<"/", "p", "i", "c", ".", "p", "n", "g">>
      [] u = "http://h/.pic" -> <<"/", ".", "p", "i", "c">>
      [] u = "http://h/pic." -> <<"/", "p", "i", "c", ".">>
      [] u = "http://h/pic?v=1.2" -> <<"/", "p", "i", "c">>
      [] OTHER -> <<>>

\* the position of the last '/' among the first i characters of p, or 0
RECURSIVE last_slash(_, _)
last_slash(p, i) ==
    IF i = 0 THEN 0
    ELSE IF p[i] = "/" THEN i
    ELSE last_slash(p, i - 1)

\* line 82: os.path.basename
basename(p) == SubSeq(p, last_slash(p, Len(p)) + 1, Len(p))

\* line 84
DefaultFilename == <<"downloaded_image.jpg">>

\* lines 81-84: the file name taken from the URL
derive_filename(u) ==
    LET filename == basename(urlparse_path(u))
    IN IF filename = <<>> \/ ~(\E i \in 1..Len(filename) : filename[i] = ".")
       THEN DefaultFilename
       ELSE filename

\* line 86: os.path.join(output_path, filename)
path_join(d, f) == [dir |-> d, name |-> f]

\* response.headers.get('content-length') of the response for u: <<>> when
\* the header is absent, <<n>> when it declares n bytes
ContentLengths(u) ==
    IF u \in Urls THEN {<<>>}
    ELSE {<<>>} \cup {<<n>> : n \in 0..(MaxLen + 1)}

\* line 88: int(response.headers.get('content-length', 0))
total_size_of(h) == IF h = <<>> THEN 0 ELSE h[1]

\* the lengths of the non-empty chunks iter_content may yield for u (the
\* body is decoded, so its length need not be the declared one)
ChunkLens(u) == IF u \in Urls THEN {1} ELSE 1..MaxLen

\* line 96 with `=' in the place of `+='
downloaded_size_last(downloaded_size, n) == n

\* line 96: downloaded_size += len(chunk)
downloaded_size_add(downloaded_size, n) == downloaded_size + n

\* line 103 with the percentage of a total of at least one byte
percent_str_always(downloaded_size, total_size) ==
    LET t == IF total_size > 0 THEN total_size ELSE 1
    IN [known |-> TRUE, tenths |-> (2000 * downloaded_size + t) \div (2 * t)]

\* line 103: f"{downloaded_size / total_size * 100:.1f}%" if total_size > 0
\* else "N/A"; the number is kept in tenths of a percent, rounded
percent_str(downloaded_size, total_size) ==
    IF total_size > 0
    THEN [known |-> TRUE,
          tenths |-> (2000 * downloaded_size + total_size) \div (2 * total_size)]
    ELSE NA

\* lines 99-105: the record _download_image passes to progress_callback
progress_dict(total_size, downloaded_size) ==
    [keys |-> {"status", "total_bytes", "downloaded_bytes", "_percent_str",
               "_eta_str"},
     status |-> "downloading",
     total_bytes |-> total_size,
     downloaded_bytes |-> downloaded_size,
     percent |-> percent_str(downloaded_size, total_size)]

\* line 107: completion_callback(file_path)
image_complete_message(file_path) ==
    [kind |-> "completion", prefix |-> "", url |-> "", detail |-> "",
     path |-> file_path]

\* lines 110 and 113 without the text of the exception
image_error_message_plain(pc, u, e) ==
    [kind |-> "error",
     prefix |-> IF pc = "l110" THEN "Network error downloading image from"
                ELSE "Error downloading image from",
     url |-> u, detail |-> "", path |-> NoPath]

\* lines 110 and 113: f"Network error downloading image from {url}: {e}" and
\* f"Error downloading image from {url}: {e}"; str(e) names the exception
image_error_message(pc, u, e) ==
    [kind |-> "error",
     prefix |-> IF pc = "l110" THEN "Network error downloading image from"
                ELSE "Error downloading image from",
     url |-> u, detail |-> e, path |-> NoPath]

\* lines 77-89: the request, the file name, the declared size
image_get(w) ==
    /\ At(w, {"l77"})
    /\ \E res \in GetResults(reqs[w].url), h \in ContentLengths(reqs[w].url) :
          /\ res # "ok" => h = <<>>
          /\ reqs' = [reqs EXCEPT
                 ![w].loc.nget = @ + 1,
                 ![w].loc.response = res,
                 ![w].loc.exc = IF after_get(res) = "l91" THEN @ ELSE res,
                 ![w].loc.file_path =
                     IF after_get(res) = "l91"
                     THEN path_join(reqs[w].output_dir, derive_filename(reqs[w].url))
                     ELSE @,
                 ![w].loc.content_length = h,
                 ![w].loc.total_size = total_size_of(h),
                 ![w].wpc = after_get(res)]
    /\ UNCHANGED <<is_downloading, cpc, cur, download_button>>

\* line 91: open(file_path, 'wb') creates or truncates the file, or raises
\* OSError
image_open(w) ==
    /\ At(w, {"l91"})
    /\ \E ok \in BOOLEAN :
          reqs' = [reqs EXCEPT
                      ![w].loc.f = IF ok THEN "open" ELSE @,
                      ![w].loc.exc = IF ok THEN @ ELSE "io",
                      ![w].wpc = IF ok THEN "l92" ELSE except_clause("io")]
    /\ UNCHANGED <<is_downloading, cpc, cur, download_button>>

\* lines 92-105: one iteration of the chunk loop.  An empty chunk is skipped
\* (nothing changes); a chunk of n bytes is written (the write can raise
\* OSError) and progress_callback is called (the handler can raise); the
\* stream can break (RequestException).  A response that declares a length
\* of 0 has no body.
ChunkKinds == {"empty", "data", "write_fails", "stream_breaks"}

image_chunk(w) ==
    /\ At(w, {"l92"})
    /\ reqs[w].loc.nprogress < MaxChunks
    /\ \E c \in ChunkKinds, n \in ChunkLens(reqs[w].url), h \in HandlerOutcomes :
          LET yielded == c \in {"data", "write_fails"}
              written == c = "data"
              delivered == written /\ progress_callback
              size == IF written
                      THEN downloaded_size_add(reqs[w].loc.downloaded_size, n)
                      ELSE reqs[w].loc.downloaded_size
              e == IF c = "write_fails" THEN "io"
                   ELSE IF c = "stream_breaks" THEN "network"
                   ELSE IF delivered /\ h = "raises" THEN "handler"
                   ELSE "none"
              l == [reqs[w].loc EXCEPT
                       !.received = IF yielded THEN @ + n ELSE @,
                       !.nonempty = IF yielded THEN @ + 1 ELSE @,
                       !.written = IF written THEN @ + n ELSE @,
                       !.downloaded_size = size,
                       !.ev = IF delivered
                              THEN progress_dict(reqs[w].loc.total_size, size)
                              ELSE @,
                       !.nprogress = IF delivered THEN @ + 1 ELSE @]
          IN /\ yielded => reqs[w].loc.content_length # <<0>>
             /\ reqs' = [reqs EXCEPT
                    ![w].loc = IF e = "none" THEN l
                               ELSE [after_loop(l) EXCEPT !.exc = e],
                    ![w].wpc = IF e = "none" THEN @ ELSE except_clause(e)]
    /\ UNCHANGED <<is_downloading, cpc, cur, download_button>>

\* the iterator is exhausted and the file is closed
image_body_end(w) ==
    /\ At(w, {"l92"})
    /\ reqs' = [reqs EXCEPT ![w].wpc = "l107", ![w].loc = after_loop(@)]
    /\ UNCHANGED <<is_downloading, cpc, cur, download_button>>

\* lines 106-107: completion_callback(file_path) inside the try block: an
\* exception of the handler is caught by `except Exception' at line 111
image_complete(w) ==
    /\ At(w, {"l107"})
    /\ \E h \in HandlerOutcomes :
          reqs' = [reqs EXCEPT
                      ![w].ncompletion = IF completion_callback THEN @ + 1 ELSE @,
                      ![w].loc = [after_outcome(@) EXCEPT
                          !.msg = IF completion_callback
                                  THEN image_complete_message(reqs[w].loc.file_path)
                                  ELSE @,
                          !.exc = IF completion_callback /\ h = "raises"
                                  THEN "handler" ELSE @],
                      ![w].wpc = IF completion_callback /\ h = "raises"
                                 THEN except_clause("handler") ELSE "l115"]
    /\ UNCHANGED <<is_downloading, cpc, cur, download_button>>

\* lines 108-113: error_callback(...) in either except clause; an exception
\* of the handler is pending while the finally block runs
image_error(w) ==
    /\ At(w, {"l110", "l113"})
    /\ \E h \in HandlerOutcomes :
          reqs' = [reqs EXCEPT
                      ![w].nerror = IF error_callback THEN @ + 1 ELSE @,
                      ![w].loc = [after_outcome(@) EXCEPT
                          !.msg = IF error_callback
                                  THEN image_error_message(
                                           reqs[w].wpc, reqs[w].url, reqs[w].loc.exc)
                                  ELSE @,
                          !.exc = "none",
                          !.pending = error_callback /\ h = "raises"],
                      ![w].wpc = "l115"]
    /\ UNCHANGED <<is_downloading, cpc, cur, download_button>>

\* lines 114-115: finally
image_finally(w) ==
    /\ At(w, {"l115"})
    /\ is_downloading' = FALSE
    /\ reqs' = [reqs EXCEPT ![w].wpc = thread_end(reqs[w]), ![w].loc = NoLocals]
    /\ UNCHANGED <<cpc, cur, download_button>>

Caller(t) ==
    \/ download_content_enter(t)
    \/ download_content_busy(t)
    \/ download_content_nodir(t)
    \/ download_content_set(t)
    \/ download_content_start(t)

Worker(w) ==
    \/ run_download_task(w)
    \/ run_download_task_invalid(w)
    \/ run_download_task_clear(w)
    \/ yt_dlp_hook(w)
    \/ ydl_download(w)
    \/ video_audio_complete(w)
    \/ video_audio_error(w)
    \/ video_audio_finally(w)
    \/ image_get(w)
    \/ image_open(w)
    \/ image_chunk(w)
    \/ image_body_end(w)
    \/ image_complete(w)
    \/ image_error(w)
    \/ image_finally(w)

Next ==
    \/ \E t \in Callers : Caller(t)
    \/ \E w \in 1..MaxCalls : Worker(w)

Spec == Init /\ [][Next]_vars

\* ------------------------------------------------ one worker, any response
\* download_content has accepted a submission and has just started its
\* worker; the URL is one of StreamUrls, whose responses and hook records
\* come with any declared size, chunk lengths and byte counts
InitWorker ==
    /\ is_downloading = TRUE
    /\ cpc = [t \in Callers |-> "idle"]
    /\ cur = [t \in Callers |-> 0]
    /\ download_button = "normal"
    /\ \E u \in StreamUrls, k \in Kinds :
          reqs = <<[NewReq(u, k, "out") EXCEPT !.result = "accepted",
                                              !.wpc = "l143"]>>

NextWorker == \E w \in 1..MaxCalls : Worker(w)

SpecWorker == InitWorker /\ [][NextWorker]_vars

\* ------------------------------------- submissions from a single thread
\* every call of download_content is made by the same thread, which makes
\* its next call when the previous one has returned
NextSingle ==
    \/ Caller("t1")
    \/ \E w \in 1..MaxCalls : Worker(w)

SpecSingle == Init /\ [][NextSingle]_vars

\* ---------------------------------------------- DownloaderApp (main.py)
\* The interaction thread runs one Tk callback at a time: start_download,
\* with the whole call of download_content inside it, or a handler that the
\* worker (or download_content) has scheduled with master.after.  The
\* manager's handlers are on_download_complete and on_download_error, which
\* schedule _on_download_complete_gui and _on_download_error_gui; the
\* callbacks scheduled and not yet run are the outcome events of a request
\* beyond reqs[r].ngui, in any order; a call of an outcome handler counts
\* as scheduling its callback also when the handler is taken to raise.
\* update_progress schedules _update_progress_gui, which touches neither
\* the button nor the manager.
InteractionThread == "t1"

\* lines 330-336: the values of the three radio buttons of download_type
GuiKinds == {"video", "audio", "image"}

\* what start_download reads from the URL entry, the radio buttons and
\* output_directory (which was created at start-up and may be gone since)
GuiSubmissions == { s \in Submissions : s[2] \in GuiKinds }

\* start_download, lines 404-410: where the call goes after the two checks
start_download_checks(url, busy) ==
    IF url = "" THEN "no_url"
    ELSE IF busy THEN "refused_busy"
    ELSE "pending"

\* lines 399-421, up to the checks of download_content (lines 126-131): a
\* click on the button, which Tk delivers only while the button is enabled.
\* Only this thread sets is_downloading, so the flag read at line 408 is
\* the flag read at line 126 when line 408 has found it false.
start_download(t) ==
    /\ cpc[t] = "idle"
    /\ download_button = "normal"
    /\ ncalls < MaxCalls
    /\ \E s \in GuiSubmissions :
          LET res == start_download_checks(s[1], is_downloading)
          IN /\ reqs' = Append(reqs, [NewReq(s[1], s[2], s[3]) EXCEPT !.result = res])
             /\ download_button' = IF res = "pending" THEN "disabled"
                                   ELSE download_button
             /\ cpc' = IF res = "pending"
                       THEN [cpc EXCEPT ![t] =
                                download_content_checks(is_downloading, isdir(s[3]))]
                       ELSE cpc
             /\ cur' = IF res = "pending" THEN [cur EXCEPT ![t] = ncalls + 1]
                       ELSE cur
    /\ UNCHANGED is_downloading

\* _on_download_complete_gui (lines 477-484) and _on_download_error_gui
\* (lines 490-497), run by the interaction thread some time after the
\* outcome handler has scheduled them: both re-enable the button
on_download_outcome_gui(r) ==
    /\ r \in Ids
    /\ cpc[InteractionThread] = "idle"
    /\ reqs[r].ngui < Outcomes(r)
    /\ reqs' = [reqs EXCEPT ![r].ngui = @ + 1]
    /\ download_button' = "normal"
    /\ UNCHANGED <<is_downloading, cpc, cur>>

\* the worker of a submission of the GUI: its download type is one of
\* GuiKinds, so that _run_download_task calls one of the two adapters
GuiWorker(w) ==
    \/ run_download_task(w)
    \/ yt_dlp_hook(w)
    \/ ydl_download(w)
    \/ video_audio_complete(w)
    \/ video_audio_error(w)
    \/ video_audio_finally(w)
    \/ image_get(w)
    \/ image_open(w)
    \/ image_chunk(w)
    \/ image_body_end(w)
    \/ image_complete(w)
    \/ image_error(w)
    \/ image_finally(w)

NextGui ==
    \/ start_download(InteractionThread)
    \/ download_content_nodir(InteractionThread)
    \/ download_content_set(InteractionThread)
    \/ download_content_start(InteractionThread)
    \/ \E r \in 1..MaxCalls : on_download_outcome_gui(r)
    \/ \E w \in 1..MaxCalls : GuiWorker(w)

SpecGui == Init /\ [][NextGui]_vars

\* every thread that can take a step eventually takes one: the interaction
\* thread goes on with the call of download_content it is in and runs the
\* callbacks scheduled, every worker thread goes on
FairGui ==
    /\ WF_vars(\/ download_content_nodir(InteractionThread)
               \/ download_content_set(InteractionThread)
               \/ download_content_start(InteractionThread))
    /\ WF_vars(\E r \in 1..MaxCalls : on_download_outcome_gui(r))
    /\ \A w \in 1..MaxCalls : WF_vars(GuiWorker(w))

SpecGuiLive == SpecGui /\ FairGui

\* ================================================================ claims
ValidKinds == {"video", "audio", "image"}
CallerAt(r, pcs) == \E t \in Callers : cur[t] = r /\ cpc[t] \in pcs
RejectedBusy(r) == reqs[r].result = "rejected_busy" \/ CallerAt(r, {"l128"})
Invalid(r) == reqs[r].download_type \notin ValidKinds \/ reqs[r].url = ""
Quiescent ==
    /\ \A t \in Callers : cpc[t] = "idle"
    /\ \A r \in Ids : Accepted(r) => Finished(r)

\* C1: at most one worker thread started by download_content is running an
\* adapter at any time, whatever threads the calls come from
C1_SingleFlight ==
    Cardinality({r \in Ids : Accepted(r) /\ InAdapter(r)}) <= 1

\* C2 (as stated): a submission rejected because the orchestrator is busy
\* has no handler invoked on its behalf
C2_RejectedBusyNoEvents ==
    \A r \in Ids : RejectedBusy(r) => Events(r) = 0

\* C2 (amended): a submission rejected because the orchestrator is busy gets
\* exactly one event, the error_callback call of download_content; no
\* progress or completion handler is invoked for it and no worker is started
C2_RejectedBusyOnlyError ==
    \A r \in Ids :
        RejectedBusy(r) =>
            /\ Progress(r) = 0
            /\ reqs[r].ncompletion = 0
            /\ reqs[r].wpc = "none"
            /\ reqs[r].nerror = IF reqs[r].result = "rejected_busy" THEN 1 ELSE 0

\* a submission was rejected as busy while another one is in flight
C2_Witness ==
    \E r, q \in Ids :
        /\ reqs[r].result = "rejected_busy" /\ reqs[r].nerror = 1
        /\ Running(q)

\* C3: every accepted request gets exactly one completion or error callback:
\* never more than one, and one once its worker has ended
C3_ExactlyOneOutcome ==
    \A r \in Ids :
        Accepted(r) =>
            /\ Outcomes(r) <= 1
            /\ (Finished(r) => Outcomes(r) = 1)

\* C4: once the completion or error callback of an accepted request has been
\* invoked, no further progress, completion or error callback is invoked
\* for that request
C4_OutcomeIsLast ==
    [][\A r \in Ids :
          (Accepted(r) /\ Outcomes(r) >= 1) =>
              /\ reqs'[r].loc.nprogress <= reqs[r].loc.nprogress
              /\ reqs'[r].ncompletion = reqs[r].ncompletion
              /\ reqs'[r].nerror = reqs[r].nerror]_vars

\* C5: when the completion or error callback of an accepted request is
\* invoked, is_downloading is false, or becomes false in the same step
C5_ClearedBeforeOutcome ==
    [][\A r \in Ids :
          (Accepted(r) /\ reqs'[r].ncompletion + reqs'[r].nerror > Outcomes(r)) =>
              is_downloading' = FALSE]_vars

\* C6: the system never stays busy: when no call of download_content is
\* under way and every worker has ended, is_downloading is false
C6_NeverLeftBusy ==
    Quiescent => is_downloading = FALSE

\* C7: once error_callback has been invoked for an accepted valid request,
\* and nothing else is under way, a call of download_content with the same
\* request is not rejected as busy
C7_Settled(q) ==
    \/ reqs[q].result \in {"rejected_busy", "rejected_dir"}
    \/ Accepted(q) /\ Finished(q) /\ reqs[q].download_type \in ValidKinds

C7_ErrorReceived(p) ==
    /\ Accepted(p)
    /\ reqs[p].nerror >= 1
    /\ ~Invalid(p)
    /\ \A q \in Ids \ {p} : C7_Settled(q)

C7_ResubmitAfterError ==
    [][\A t \in Callers :
          (/\ cpc[t] = "idle" /\ cpc'[t] # "idle"
           /\ \A u \in Callers : cpc[u] = "idle"
           /\ \E p \in Ids :
                  /\ C7_ErrorReceived(p)
                  /\ reqs'[cur'[t]].url = reqs[p].url
                  /\ reqs'[cur'[t]].download_type = reqs[p].download_type
                  /\ reqs'[cur'[t]].output_dir = reqs[p].output_dir)
          => cpc'[t] # "l128"]_vars

\* C8: a call of download_content with a destination directory that does
\* not exist changes is_downloading at no step and starts no worker; made
\* while idle, it goes to the rejection of line 133, which invokes
\* error_callback once
C8_MissingDirRejected ==
    [][\A t \in Callers :
          LET r == IF cur[t] # 0 THEN cur[t] ELSE cur'[t]
          IN (cpc'[t] # cpc[t] /\ reqs'[r].output_dir \notin ExistingDirs) =>
                /\ is_downloading' = is_downloading
                /\ reqs'[r].wpc = "none"
                /\ reqs'[r].result \in {"pending", "rejected_busy", "rejected_dir"}
                /\ (cpc[t] = "idle" /\ ~is_downloading => cpc'[t] = "l133")
                /\ (cpc[t] = "l133" =>
                       reqs'[r].result = "rejected_dir" /\ reqs'[r].nerror = 1)]_vars

\* a call with a missing directory, made while idle, has been rejected
C8_Witness ==
    \E r \in Ids :
        /\ reqs[r].output_dir \notin ExistingDirs
        /\ reqs[r].result = "rejected_dir"
        /\ reqs[r].nerror = 1
        /\ reqs[r].wpc = "none"
        /\ is_downloading = FALSE
        /\ \A q \in Ids : ~Accepted(q)

C10_NoUncaughtException ==
    \A r \in Ids : reqs[r].wpc # "crashed" /\ ~reqs[r].loc.pending

\* C11: once the engine run of an accepted video or audio request has
\* failed, by raising or by returning with a failure, completion_callback is
\* not invoked for the request
C11_EngineFailureReported ==
    [][\A r \in Ids :
          (/\ Accepted(r)
           /\ reqs[r].wpc \in ExtractionPcs
           /\ reqs[r].loc.engine \in {"failed_silently", "raised"})
          => reqs'[r].ncompletion = reqs[r].ncompletion]_vars

\* the failures of the image adapter the error taxonomy names
FailureKinds == {"network", "http", "io"}

C13_LastProgressIsTotal ==
    [][\A r \in Ids :
          (/\ reqs[r].wpc = "l92" /\ reqs'[r].wpc = "l107"
           /\ reqs[r].loc.content_length # <<>>
           /\ reqs[r].loc.ev.keys # {})
          => reqs[r].loc.ev.downloaded_bytes = reqs[r].loc.total_size]_vars

\* C14: the downloaded_bytes of a progress event delivered for a request is
\* not below the downloaded_bytes of the event delivered before it
C14_BytesNeverDecrease ==
    [][\A r \in Ids :
          (/\ reqs'[r].loc.nprogress > reqs[r].loc.nprogress
           /\ "downloaded_bytes" \in reqs[r].loc.ev.keys
           /\ "downloaded_bytes" \in reqs'[r].loc.ev.keys)
          => reqs'[r].loc.ev.downloaded_bytes >= reqs[r].loc.ev.downloaded_bytes]_vars

\* C15: the steps of a call that is rejected as busy leave is_downloading as
\* it is (true when the call reads it), start no worker for the call and
\* change the record of no other request: position, adapter state and
\* events delivered of the request in flight stay as they are
C15_RejectionLeavesInFlight ==
    [][\A t \in Callers :
          LET r == IF cur[t] # 0 THEN cur[t] ELSE cur'[t]
          IN (cpc'[t] # cpc[t] /\ "l128" \in {cpc[t], cpc'[t]}) =>
                /\ is_downloading' = is_downloading
                /\ cpc'[t] = "l128" => is_downloading
                /\ reqs'[r].wpc = "none"
                /\ reqs'[r].result \in {"pending", "rejected_busy"}
                /\ \A q \in Ids \ {r} : reqs'[q] = reqs[q]]_vars

\* a call was rejected as busy and the request that was in flight before
\* it has completed
C15_Witness ==
    \E r, q \in Ids :
        /\ q < r
        /\ reqs[r].result = "rejected_busy"
        /\ Accepted(q) /\ reqs[q].wpc = "done"
        /\ reqs[q].ncompletion = 1 /\ reqs[q].nerror = 0
        /\ is_downloading = FALSE

\* a file name has an extension: a dot that follows a character other than
\* a dot and is followed by at least one character
HasExtension(f) ==
    \E i \in 2..(Len(f) - 1) : f[i] = "." /\ \E j \in 1..(i - 1) : f[j] # "."

\* C16: the destination of an image request is the destination directory
\* joined with the last path segment of the URL, or with
\* downloaded_image.jpg when the segment is absent or has no extension
C16_FilenameDerivation ==
    \A r \in Ids :
        reqs[r].loc.file_path # NoPath =>
            LET segment == basename(urlparse_path(reqs[r].url))
            IN reqs[r].loc.file_path =
                   [dir |-> reqs[r].output_dir,
                    name |-> IF segment = <<>> \/ ~HasExtension(segment)
                             THEN <<"downloaded_image.jpg">>
                             ELSE segment]

C18_FitsKind(r) ==
    /\ reqs[r].download_type \in {"video", "audio"} =>
           /\ reqs[r].adapter \in {"none", "extraction"}
           /\ reqs[r].wpc \notin DirectPcs
    /\ reqs[r].download_type = "image" =>
           /\ reqs[r].adapter \in {"none", "direct"}
           /\ reqs[r].wpc \notin ExtractionPcs
    /\ reqs[r].wpc \in ExtractionPcs =>
           /\ reqs[r].loc.ydl_opts.extract_audio = (reqs[r].download_type = "audio")
           /\ reqs[r].download_type = "audio" =>
                  /\ reqs[r].loc.ydl_opts.format = "bestaudio/best"
                  /\ "FFmpegExtractAudio" \in reqs[r].loc.ydl_opts.postprocessors
           /\ reqs[r].download_type = "video" =>
                  reqs[r].loc.ydl_opts.postprocessors = {}

C19_SameShape ==
    \A r \in Ids :
        reqs[r].loc.ev.keys # {} =>
            /\ reqs[r].loc.ev.keys =
                   {"status", "total_bytes", "downloaded_bytes", "_percent_str",
                    "_eta_str"}
            /\ reqs[r].loc.ev.status \in {"downloading", "finished", "error"}

\* C20: at the head of the chunk loop, thus also when the loop ends and
\* completion_callback is called, one progress event has been delivered per
\* non-empty chunk yielded, every yielded byte has been written, and the
\* last event's downloaded_bytes is the sum of the lengths of the chunks so
\* far; the completion event carries the path of the file that was written
C20_OneEventPerChunk ==
    \A r \in Ids :
        /\ reqs[r].wpc = "l92" =>
               /\ reqs[r].loc.file_path =
                      path_join(reqs[r].output_dir, derive_filename(reqs[r].url))
               /\ reqs[r].loc.nprogress = reqs[r].loc.nonempty
               /\ reqs[r].loc.written = reqs[r].loc.received
               /\ reqs[r].loc.nprogress = 0 => reqs[r].loc.ev = NoEvent
               /\ reqs[r].loc.nprogress > 0 =>
                      /\ reqs[r].loc.ev.status = "downloading"
                      /\ reqs[r].loc.ev.downloaded_bytes = reqs[r].loc.received
        /\ (reqs[r].adapter = "direct" /\ reqs[r].loc.msg.kind = "completion") =>
               /\ reqs[r].ncompletion = 1
               /\ reqs[r].loc.msg.path =
                      path_join(reqs[r].output_dir, derive_filename(reqs[r].url))
               /\ reqs[r].loc.msg.path.name # <<>>

\* a body of a chunk of one byte and a chunk of two bytes has been written
\* and reported
C20_Witness ==
    \E r \in Ids :
        /\ reqs[r].wpc = "l92"
        /\ reqs[r].loc.nprogress = 2
        /\ reqs[r].loc.received = 3
        /\ reqs[r].loc.ev.downloaded_bytes = 3

\* C21: with all submissions made by one thread, is_downloading is true
\* from line 136 of an accepted call on, before the thread is started, and
\* in every state in which the worker thread has not yet made its last
\* step: the flag is never false while an adapter is executing
C21_BusyWhileWorkerRuns ==
    \A r \in Ids :
        (Running(r) \/ CallerAt(r, {"l139"})) => is_downloading

\* the single thread's second submission is running its adapter after the
\* worker of the first has ended
C21_Witness ==
    \E r \in Ids :
        /\ r > 1 /\ Running(r) /\ InAdapter(r)
        /\ Accepted(1) /\ Finished(1)
        /\ \A t \in Callers \ {"t1"} : cpc[t] = "idle" /\ cur[t] = 0
        /\ is_downloading



\* C22: in the GUI, when an outcome handler re-enables the download button
\* is_downloading is false, and no start_download is refused with "A
\* download is already in progress"
C22_ReenabledWhenIdle ==
    [][/\ (download_button = "disabled" /\ download_button' = "normal") =>
              ~is_downloading
       /\ \A r \in 1..Len(reqs') : reqs'[r].result # "refused_busy"]_vars

\* C23: in the GUI, a disabled download button is eventually re-enabled,
\* and a start_download that finds the URL empty or the manager busy
\* changes neither the button nor the manager
C23_ButtonReenabled ==
    /\ (download_button = "disabled") ~> (download_button = "normal")
    /\ [][(/\ Len(reqs') > Len(reqs)
            /\ reqs'[Len(reqs')].result \in {"no_url", "refused_busy"}) =>
              /\ download_button' = download_button
              /\ is_downloading' = is_downloading
              /\ cpc' = cpc /\ cur' = cur
              /\ \A r \in Ids : reqs'[r] = reqs[r]]_vars

\* C24: _download_image opens (creates or truncates) the destination file
\* only at line 91 of a request whose single HTTP request ended with a
\* success status, and writes only to the file it has opened; a request
\* whose HTTP request failed (transport failure or non-success status) goes
\* to the except clause of line 108 and from then on opens no file, writes
\* nothing and makes no further HTTP request
C24_FileOnlyAfterSuccess ==
    [][\A r \in Ids :
          /\ (reqs'[r].loc.f = "open" /\ reqs[r].loc.f # "open") =>
                 /\ reqs[r].wpc = "l91"
                 /\ reqs[r].loc.response = "ok"
                 /\ reqs[r].loc.nget = 1
          /\ reqs'[r].loc.written > reqs[r].loc.written =>
                 reqs[r].loc.f = "open"
          /\ reqs'[r].loc.nget > reqs[r].loc.nget =>
                 reqs[r].wpc = "l77" /\ reqs[r].loc.nget = 0
          /\ (reqs[r].wpc = "l77" /\ reqs'[r].wpc # "l77"
                   /\ reqs'[r].loc.response # "ok") =>
                 reqs'[r].wpc = "l110" /\ reqs'[r].loc.f = "none"
          /\ reqs[r].loc.response \in {"network", "http"} =>
                 /\ reqs'[r].loc.f = "none"
                 /\ reqs'[r].loc.written = reqs[r].loc.written
                 /\ reqs'[r].loc.nget <= reqs[r].loc.nget]_vars

\* the server has answered the one request with a non-success status and
\* the adapter is about to report it, having opened no file
C24_Witness ==
    \E r \in Ids :
        /\ reqs[r].wpc = "l110"
        /\ reqs[r].loc.response = "http"
        /\ reqs[r].loc.nget = 1
        /\ reqs[r].loc.f = "none"
        /\ reqs[r].loc.file_path = NoPath

====
